---- MODULE Spec2Model ----
(***************************************************************************)
(* The maeror_chorus plugin (src/src/lib.rs) as a state machine.           *)
(*                                                                         *)
(* State: the plugin's fields (six delay lines, six LFOs, two feedback     *)
(* buffers, the engine sample rate) and the host's view of the run.        *)
(* Operations: initialize() and process(), the latter one audio frame at   *)
(* a time: the frame prelude with the channel-0 sample, then the channel-1 *)
(* sample.  The per-sample procedure is the reference algorithm carried in *)
(* process(); Delay and LFO (delay.rs, lfo.rs) follow the design document. *)
(*                                                                         *)
(* Numbers are exact rationals <<num, den>> (den > 0, lowest terms); f32   *)
(* rounding is not modelled.  Units: delay_ms and depth in tenths of a     *)
(* millisecond, rate in quarters of a hertz.                               *)
(***************************************************************************)
EXTENDS Integers, Sequences, FiniteSets, TLC

VARIABLES
    initialized,        \* initialize() has run
    host_rate,          \* _buffer_config.sample_rate of the last initialize()
    sample_rate,        \* self.sample_rate
    l_delay_line,       \* l_delay_line1..3
    r_delay_line,       \* r_delay_line1..3
    l_lfo,              \* l_lfo1..3
    r_lfo,              \* r_lfo1..3
    l_feedback_buffer,  \* VecDeque, index 0 first
    r_feedback_buffer,
    pc,                 \* "frame": between frames; "right": channel 1 pending
    params,             \* parameter snapshot of the current / last frame
    delay_samples,      \* delay_samples of the current / last frame
    frames,             \* frames completed since initialize()
    run_params,         \* held: "none" (no frame yet), "all" (every frame so far
                        \* saw the snapshot p) or "mixed"
    l_in, r_in,         \* input sequences since initialize()
    l_out, r_out,       \* output sequences since initialize()
    l_taps, r_taps,     \* delay_samples as i32 + offset_k of the last sample
    l_fb_read, r_fb_read, \* feedback value read by the last sample
    panicked            \* process() panicked (a failed unwrap / index)

vars == <<initialized, host_rate, sample_rate, l_delay_line, r_delay_line,
          l_lfo, r_lfo, l_feedback_buffer, r_feedback_buffer, pc, params,
          delay_samples, frames, run_params, l_in, r_in, l_out, r_out,
          l_taps, r_taps, l_fb_read, r_fb_read, panicked>>

l_vars == <<l_delay_line, l_lfo, l_feedback_buffer, l_in, l_out, l_taps, l_fb_read>>
r_vars == <<r_delay_line, r_lfo, r_feedback_buffer, r_in, r_out, r_taps, r_fb_read>>

----------------------------------------------------------------------------
(* Bounds of the model *)

MaxFrames == 2
MaxRate == 20

(* Program constants *)
DefaultRate == 44100
FeedbackMaxNum == 999
FeedbackMaxDen == 1000

----------------------------------------------------------------------------
(* Exact rational arithmetic *)

Abs(n) == IF n < 0 THEN -n ELSE n

RECURSIVE GCD(_, _)
GCD(a, b) == IF b = 0 THEN a ELSE GCD(b, a % b)

Rat(n, d) ==
    LET g == GCD(Abs(n), Abs(d))
        s == IF d < 0 THEN -1 ELSE 1
    IN  <<s * (n \div g), s * (d \div g)>>

Zero == <<0, 1>>
One == <<1, 1>>
Int2Rat(n) == <<n, 1>>

RAdd(a, b) ==
    LET g == GCD(a[2], b[2])
    IN  Rat(a[1] * (b[2] \div g) + b[1] * (a[2] \div g), (a[2] \div g) * b[2])

RNeg(a) == <<-a[1], a[2]>>

RMul(a, b) ==
    LET g1 == GCD(Abs(a[1]), b[2])
        g2 == GCD(Abs(b[1]), a[2])
    IN  Rat((a[1] \div g1) * (b[1] \div g2), (a[2] \div g2) * (b[2] \div g1))

RInv(a) == IF a[1] < 0 THEN <<-a[2], -a[1]>> ELSE <<a[2], a[1]>>

RDiv(a, b) == RMul(a, RInv(b))

RLeq(a, b) ==
    LET g == GCD(a[2], b[2])
    IN  a[1] * (b[2] \div g) <= b[1] * (a[2] \div g)

RLt(a, b) == RLeq(a, b) /\ a # b

RAbs(a) == <<Abs(a[1]), a[2]>>

\* f32::round: to the nearest integer, halves away from zero
Round(a) ==
    IF a[1] >= 0 THEN (2 * a[1] + a[2]) \div (2 * a[2])
    ELSE -((2 * (-a[1]) + a[2]) \div (2 * a[2]))

\* a - floor(a) for a >= 0
Frac(a) == Rat(a[1] % a[2], a[2])

----------------------------------------------------------------------------
(* delay::Delay: a circular buffer and its write cursor *)

\* Delay::new(capacity, delay, initial_value)
DelayNew(capacity, delay, value) ==
    [buffer |-> [i \in 1..capacity |-> value], write_index |-> 0,
     delay |-> delay, read_index |-> 0]

\* Delay::resize_buffers(new_capacity): reallocated, content and cursor reset
ResizeBuffers(dl, capacity) ==
    [dl EXCEPT !.buffer = [i \in 1..capacity |-> Zero], !.write_index = 0,
               !.read_index = 0]

Capacity(dl) == Len(dl.buffer)

\* variant: the cursor is advanced without wrapping
AdvanceCursorNoWrap(w, capacity) == w + 1

\* the cursor after one write
AdvanceCursor(w, capacity) == (w + 1) % capacity

\* the index read for a delay d, from the advanced cursor
ReadIndex(w, d, capacity) == (w - d) % capacity

\* Delay::process_sample(x, delay_in_samples): write at the cursor, advance
\* it, read delay_in_samples behind it.  ok = FALSE: the precondition
\* 0 <= delay_in_samples < capacity is violated (an index out of the buffer).
ProcessSample(dl, x, d) ==
    IF Capacity(dl) > 0 /\ d >= 0 /\ d < Capacity(dl)
    THEN LET buf == [dl.buffer EXCEPT ![dl.write_index + 1] = x]
             w   == AdvanceCursor(dl.write_index, Capacity(dl))
             r   == ReadIndex(w, d, Capacity(dl))
         IN  [ok |-> TRUE,
              dl |-> [dl EXCEPT !.buffer = buf, !.write_index = w, !.read_index = r],
              out |-> buf[r + 1]]
    ELSE [ok |-> FALSE, dl |-> dl, out |-> Zero]

----------------------------------------------------------------------------
(* lfo::LFO: a phase accumulator, phase in [0, 1) *)

\* LFO::new(sample_rate, rate)
LfoNew(sr, rate) == [sample_rate |-> sr, rate |-> rate, phase |-> Zero]

\* LFO::new_random_phase(sample_rate, rate), ph the number drawn
LfoNewRandomPhase(sr, rate, ph) == [sample_rate |-> sr, rate |-> rate, phase |-> ph]

\* sin(2 pi t) for t in [0, 1/2), by Bhaskara's rational approximation
\* 16 x (pi - x) / (5 pi^2 - 4 x (pi - x)): exact at 0, 1/12, 1/4, 5/12
HalfSine(t) ==
    LET h == t[1] * (t[2] - 2 * t[1])
    IN  Rat(32 * h, 5 * t[2] * t[2] - 8 * h)

\* LFO::next_value(): the sinusoid at the current phase, no state change
NextValue(lfo) ==
    IF 2 * lfo.phase[1] < lfo.phase[2] THEN HalfSine(lfo.phase)
    ELSE RNeg(HalfSine(RAdd(lfo.phase, Rat(-1, 2))))

\* LFO::update_lfo(): phase = (phase + rate / sample_rate) mod 1
UpdateLfo(lfo) ==
    [lfo EXCEPT !.phase = Frac(RAdd(lfo.phase, Rat(lfo.rate, 4 * lfo.sample_rate)))]

----------------------------------------------------------------------------
(* The feedback VecDeque *)

\* VecDeque::get(i) is Some
FeedbackHas(fb, i) == i < Len(fb)

FeedbackGet(fb, i) == fb[i + 1]

\* variant: push_back and pop_front, the newest output last
FeedbackPushBack(fb, y) == SubSeq(fb, 2, Len(fb)) \o <<y>>

\* rotate_right(1), then [0] = y
FeedbackPush(fb, y) == <<y>> \o SubSeq(fb, 1, Len(fb) - 1)

----------------------------------------------------------------------------
(* The per-sample procedure of process() *)

\* ((delay_ms / 1000.0) * self.sample_rate).round() as usize
DelaySamples(delay_ms, sr) == Round(Rat(delay_ms * sr, 10000))

\* variant: the depth is not clamped to half the base delay
CalculatedDepthUnclamped(depth, sr, ds) == Rat(depth * sr, 10000)

\* (depth / 1000.0) * self.sample_rate, clamped to delay_samples / 2.0
CalculatedDepth(depth, sr, ds) ==
    LET c    == Rat(depth * sr, 10000)
        half == Rat(ds, 2)
    IN  IF RLt(half, c) THEN half ELSE c

\* (lfo.next_value() * calculated_depth / 2.0).round() as i32
Offset(value, cd) == Round(RMul(RMul(value, cd), Rat(1, 2)))

\* delay_samples as i32 + offset.  The cast to usize leaves a value >= 0 as it
\* is and takes a negative one beyond every buffer.
TapDelay(ds, offset) == ds + offset

\* x = *sample + wet * feedback * feedback_buffer.get(delay_samples).unwrap()
FeedbackInput(x, wet, feedback, fbv) == RAdd(x, RMul(RMul(wet, feedback), fbv))

\* variant: the tap average is mixed in at full level, whatever wet is
MixNoWet(wet, dry, tap_sum, x) ==
    RAdd(RDiv(tap_sum, Int2Rat(3)), RMul(x, dry))

\* y = wet * 1.0/3.0 * (tap1 + tap2 + tap3) + x * dry
Mix(wet, dry, tap_sum, x) ==
    RAdd(RMul(RDiv(wet, Int2Rat(3)), tap_sum), RMul(x, dry))

\* variant: no rescaling when wet + dry exceeds 1
HeadroomGuardOff(wet, dry, y) == y

\* if wet + dry > 1.0 { y = y / (wet + dry) }
HeadroomGuard(wet, dry, y) ==
    IF RLt(One, RAdd(wet, dry)) THEN RDiv(y, RAdd(wet, dry)) ELSE y

\* One channel's branch of the sample loop on that channel's delay lines,
\* LFOs and feedback buffer.  ok = FALSE: the branch panics (the feedback
\* get() is None, or a delay line is indexed out of its buffer).
ChannelSample(dls, lfos, fb, p, sr, ds, x) ==
    LET lfos1 == [k \in 1..3 |-> [lfos[k] EXCEPT !.rate = p.rate]]
        dls1  == [k \in 1..3 |-> [dls[k] EXCEPT !.delay = ds]]
        cd    == CalculatedDepth(p.depth, sr, ds)
        taps  == [k \in 1..3 |-> TapDelay(ds, Offset(NextValue(lfos1[k]), cd))]
    IN  IF ~FeedbackHas(fb, ds)
        THEN [ok |-> FALSE, dls |-> dls, lfos |-> lfos, fb |-> fb, out |-> Zero,
              taps |-> taps, fb_read |-> Zero]
        ELSE
          LET fbv == FeedbackGet(fb, ds)
              xx  == FeedbackInput(x, p.wet, p.feedback, fbv)
              res == [k \in 1..3 |-> ProcessSample(dls1[k], xx, taps[k])]
              sum == RAdd(RAdd(res[1].out, res[2].out), res[3].out)
              y   == HeadroomGuard(p.wet, p.dry, Mix(p.wet, p.dry, sum, xx))
          IN  IF \E k \in 1..3 : ~res[k].ok
              THEN [ok |-> FALSE, dls |-> dls, lfos |-> lfos, fb |-> fb,
                    out |-> Zero, taps |-> taps, fb_read |-> fbv]
              ELSE [ok |-> TRUE,
                    dls |-> [k \in 1..3 |-> res[k].dl],
                    lfos |-> [k \in 1..3 |-> UpdateLfo(lfos1[k])],
                    fb |-> FeedbackPush(fb, y),
                    out |-> y, taps |-> taps, fb_read |-> fbv]

----------------------------------------------------------------------------
(* Inputs *)

\* host sample rates
HostRates == {0, 1, 5, 20}

\* What the six new_random_phase() calls of one initialize() draw from the
\* process-wide generator: l_lfo1..3, then r_lfo1..3
RandomDraws ==
    { <<Rat(1, 4), Rat(3, 4), Zero, Rat(3, 4), Rat(1, 4), Rat(1, 2)>>,
      <<Rat(1, 12), Rat(5, 8), Rat(3, 4), Rat(1, 4), Rat(1, 4), Rat(1, 4)>>,
      <<Rat(3, 4), Rat(3, 4), Rat(3, 4), Rat(7, 8), Zero, Rat(1, 3)>> }

\* input samples
Samples == {One, RNeg(One)}

FeedbackMax == Rat(FeedbackMaxNum, FeedbackMaxDen)

Snapshot(delay_ms, depth, rate, feedback, wet, dry) ==
    [delay_ms |-> delay_ms, depth |-> depth, rate |-> rate,
     feedback |-> feedback, wet |-> wet, dry |-> dry]

\* MaerorChorusParams::default(): 15 ms, 5 ms, 0.5 Hz, feedback 0, wet 0, dry 1
DefaultParams == Snapshot(150, 50, 2, Zero, Zero, One)

\* parameter snapshots a frame may see, each value in its parameter's range
ParamSnapshots ==
    { DefaultParams,
      Snapshot(500, 0, 20, Zero, One, Zero),
      Snapshot(1, 250, 40, FeedbackMax, One, One),
      Snapshot(500, 250, 20, FeedbackMax, One, Zero) }

\* snapshots over more delay and depth values, for the tap arithmetic
ParamProduct ==
    { Snapshot(dm, dp, rt, FeedbackMax, One, d) :
        dm \in {1, 150, 250, 333, 500}, dp \in {0, 50, 125, 250},
        rt \in {1, 40}, d \in {Zero, One} }

----------------------------------------------------------------------------
(* Operations *)

Init ==
    /\ initialized = FALSE
    /\ host_rate = 0
    /\ sample_rate = DefaultRate
    /\ l_delay_line = [k \in 1..3 |-> DelayNew(DefaultRate, 0, Zero)]
    /\ r_delay_line = [k \in 1..3 |-> DelayNew(DefaultRate, 0, Zero)]
    /\ l_lfo = [k \in 1..3 |-> LfoNew(DefaultRate, 1)]
    /\ r_lfo = [k \in 1..3 |-> LfoNew(DefaultRate, 1)]
    /\ l_feedback_buffer = <<>>
    /\ r_feedback_buffer = <<>>
    /\ pc = "frame"
    /\ params = DefaultParams
    /\ delay_samples = 0
    /\ frames = 0
    /\ run_params = [held |-> "none", p |-> DefaultParams]
    /\ l_in = <<>> /\ r_in = <<>>
    /\ l_out = <<>> /\ r_out = <<>>
    /\ l_taps = <<0, 0, 0>> /\ r_taps = <<0, 0, 0>>
    /\ l_fb_read = Zero /\ r_fb_read = Zero
    /\ panicked = FALSE

\* the engine sample rate initialize() stores
EngineRate(sr) == 2 * sr

\* initialize(): always returns true
Initialize(sr, draw) ==
    /\ pc = "frame" /\ ~panicked
    /\ initialized' = TRUE
    /\ host_rate' = sr
    /\ l_delay_line' = [k \in 1..3 |-> ResizeBuffers(l_delay_line[k], sr)]
    /\ r_delay_line' = [k \in 1..3 |-> ResizeBuffers(r_delay_line[k], sr)]
    /\ l_lfo' = [k \in 1..3 |-> LfoNewRandomPhase(sr, 1, draw[k])]
    /\ r_lfo' = [k \in 1..3 |-> LfoNewRandomPhase(sr, 1, draw[3 + k])]
    /\ sample_rate' = EngineRate(sr)
    /\ l_feedback_buffer' = [i \in 1..sr |-> Zero]
    /\ r_feedback_buffer' = [i \in 1..sr |-> Zero]
    /\ params' = DefaultParams
    /\ delay_samples' = 0
    /\ frames' = 0
    /\ run_params' = [held |-> "none", p |-> DefaultParams]
    /\ l_in' = <<>> /\ r_in' = <<>>
    /\ l_out' = <<>> /\ r_out' = <<>>
    /\ l_taps' = <<0, 0, 0>> /\ r_taps' = <<0, 0, 0>>
    /\ l_fb_read' = Zero /\ r_fb_read' = Zero
    /\ UNCHANGED <<pc, panicked>>

\* whether one snapshot has been held since initialize()
HoldParams(run, p) ==
    IF run.held = "none" \/ (run.held = "all" /\ run.p = p)
    THEN [held |-> "all", p |-> p]
    ELSE [held |-> "mixed", p |-> DefaultParams]

\* process(), one frame: the parameter snapshot, delay_samples, and the
\* channel-0 sample (num == 0) on the left fields
ProcessLeft(p, x) ==
    /\ initialized /\ pc = "frame" /\ ~panicked
    /\ LET ds == DelaySamples(p.delay_ms, sample_rate)
           r  == ChannelSample(l_delay_line, l_lfo, l_feedback_buffer, p,
                               sample_rate, ds, x)
       IN  /\ params' = p
           /\ delay_samples' = ds
           /\ run_params' = HoldParams(run_params, p)
           /\ l_taps' = r.taps
           /\ l_fb_read' = r.fb_read
           /\ IF r.ok
              THEN /\ l_delay_line' = r.dls
                   /\ l_lfo' = r.lfos
                   /\ l_feedback_buffer' = r.fb
                   /\ l_in' = Append(l_in, x)
                   /\ l_out' = Append(l_out, r.out)
                   /\ pc' = "right"
                   /\ UNCHANGED panicked
              ELSE /\ panicked' = TRUE
                   /\ UNCHANGED <<l_delay_line, l_lfo, l_feedback_buffer,
                                  l_in, l_out, pc>>
    /\ UNCHANGED <<initialized, host_rate, sample_rate, frames, r_vars>>

\* variant: the channel-1 branch advances and stores the left LFOs
ProcessRightSharedLfo(x) ==
    /\ initialized /\ pc = "right" /\ ~panicked
    /\ LET r == ChannelSample(r_delay_line, l_lfo, r_feedback_buffer, params,
                              sample_rate, delay_samples, x)
       IN  /\ r_taps' = r.taps
           /\ r_fb_read' = r.fb_read
           /\ IF r.ok
              THEN /\ r_delay_line' = r.dls
                   /\ l_lfo' = r.lfos
                   /\ r_feedback_buffer' = r.fb
                   /\ r_in' = Append(r_in, x)
                   /\ r_out' = Append(r_out, r.out)
                   /\ pc' = "frame"
                   /\ frames' = frames + 1
                   /\ UNCHANGED panicked
              ELSE /\ panicked' = TRUE
                   /\ UNCHANGED <<l_lfo, r_delay_line, r_feedback_buffer,
                                  r_in, r_out, pc, frames>>
    /\ UNCHANGED <<initialized, host_rate, sample_rate, params, delay_samples,
                   run_params, r_lfo, l_delay_line, l_feedback_buffer, l_in,
                   l_out, l_taps, l_fb_read>>

\* process(), the same frame: the channel-1 sample on the right fields
ProcessRight(x) ==
    /\ initialized /\ pc = "right" /\ ~panicked
    /\ LET r == ChannelSample(r_delay_line, r_lfo, r_feedback_buffer, params,
                              sample_rate, delay_samples, x)
       IN  /\ r_taps' = r.taps
           /\ r_fb_read' = r.fb_read
           /\ IF r.ok
              THEN /\ r_delay_line' = r.dls
                   /\ r_lfo' = r.lfos
                   /\ r_feedback_buffer' = r.fb
                   /\ r_in' = Append(r_in, x)
                   /\ r_out' = Append(r_out, r.out)
                   /\ pc' = "frame"
                   /\ frames' = frames + 1
                   /\ UNCHANGED panicked
              ELSE /\ panicked' = TRUE
                   /\ UNCHANGED <<r_delay_line, r_lfo, r_feedback_buffer,
                                  r_in, r_out, pc, frames>>
    /\ UNCHANGED <<initialized, host_rate, sample_rate, params, delay_samples,
                   run_params, l_vars>>

Next ==
    \/ \E sr \in HostRates, draw \in RandomDraws : Initialize(sr, draw)
    \/ \E p \in ParamSnapshots, x \in Samples :
          frames < MaxFrames /\ ProcessLeft(p, x)
    \/ \E x \in Samples : ProcessRight(x)

Spec == Init /\ [][Next]_vars

\* One initialize(), one frame, over wider inputs: the arithmetic of the
\* sample procedure at every host rate up to MaxRate
NextWide ==
    \/ \E sr \in 0..MaxRate, draw \in RandomDraws :
          ~initialized /\ Initialize(sr, draw)
    \/ \E p \in ParamProduct, x \in Samples :
          frames < 1 /\ ProcessLeft(p, x)
    \/ \E x \in Samples : ProcessRight(x)

SpecWide == Init /\ [][NextWide]_vars

----------------------------------------------------------------------------
(* Properties *)

Last(s) == s[Len(s)]

\* a left sample has been processed with the current params and delay_samples
LeftDone == Len(l_out) > 0 /\ ~panicked

\* a right sample has been processed with the current params and delay_samples
RightDone == Len(r_out) > 0 /\ pc = "frame" /\ ~panicked

TapsInRange(taps, dls) ==
    \A k \in 1..3 : 0 <= taps[k] /\ taps[k] <= Capacity(dls[k]) - 1

\* C1: after initialize() with a host rate > 0, every sample's three tap
\* delays delay_samples + offset_k lie in 0 .. capacity - 1, and no sample
\* panics on a read.
C1_TapsInRange ==
    (initialized /\ host_rate > 0) =>
        /\ ~panicked
        /\ TapsInRange(l_taps, l_delay_line)
        /\ TapsInRange(r_taps, r_delay_line)

\* C1 witness: a processed sample whose LFOs move one tap below and one tap
\* above the base delay
C1_Witness ==
    /\ LeftDone /\ host_rate > 0
    /\ \E j, k \in 1..3 : l_taps[j] < delay_samples /\ l_taps[k] > delay_samples

Static(p) ==
    p.depth = 0 /\ p.wet = One /\ p.dry = Zero /\ p.feedback = Zero

DelayedInput(ins, n, d) == IF n - d >= 1 THEN ins[n - d] ELSE Zero

\* C2: with depth 0, wet 1, dry 0, feedback 0 held since initialize(), the
\* output at every sample is the input delay_samples samples earlier (0
\* before that).
C2_StaticDelay ==
    (run_params.held = "all" /\ Static(run_params.p) /\ ~panicked) =>
        /\ \A n \in 1..Len(l_out) : l_out[n] = DelayedInput(l_in, n, delay_samples)
        /\ \A n \in 1..Len(r_out) : r_out[n] = DelayedInput(r_in, n, delay_samples)

Passthrough(p) == p.feedback = Zero /\ p.wet = Zero /\ p.dry = One

\* C3: a sample processed with feedback 0, wet 0, dry 1 comes out equal to
\* its input, whatever the buffers hold; held for the whole run, the output
\* sequence is the input sequence.
C3_Passthrough ==
    /\ (LeftDone /\ Passthrough(params)) => Last(l_out) = Last(l_in)
    /\ (RightDone /\ Passthrough(params)) => Last(r_out) = Last(r_in)
    /\ (run_params.held = "all" /\ Passthrough(run_params.p) /\ ~panicked
        /\ pc = "frame") => (l_out = l_in /\ r_out = r_in)

\* C3 witness: a passthrough frame after a frame with other parameters, the
\* feedback buffer holding a nonzero output at the lookback index
C3_Witness ==
    /\ RightDone /\ Passthrough(params) /\ run_params.held = "mixed"
    /\ l_fb_read # Zero /\ r_fb_read # Zero
    /\ Last(l_out) = Last(l_in) /\ Last(l_out) # Last(r_out)

RECURSIVE GeoBound(_)
\* 1 + f + f^2 + ... + f^(n-1) for the largest feedback f
GeoBound(n) ==
    IF n = 0 THEN Zero ELSE RAdd(One, RMul(FeedbackMax, GeoBound(n - 1)))

\* 1 / (1 - f)
StabilityBound == Rat(FeedbackMaxDen, FeedbackMaxDen - FeedbackMaxNum)

BoundedOutputs(outs) ==
    \A n \in 1..Len(outs) :
        /\ RLeq(RAbs(outs[n]), GeoBound(n))
        /\ RLeq(GeoBound(n), StabilityBound)

left_state == <<l_delay_line, l_lfo, l_feedback_buffer, l_out>>
right_state == <<r_delay_line, r_lfo, r_feedback_buffer, r_out>>

\* C5: the step that processes the channel-0 sample leaves the right delay
\* lines, LFOs, feedback buffer and outputs as they are; the step that
\* processes the channel-1 sample leaves the left ones and the frame's
\* parameter snapshot as they are.
C5_StereoIndependent ==
    [][ /\ (Len(l_in') = Len(l_in) + 1) => UNCHANGED right_state
        /\ (Len(r_in') = Len(r_in) + 1) =>
               UNCHANGED <<left_state, params, delay_samples>> ]_vars

\* C5 witness: a completed frame after which the two channels hold
\* different histories
C5_Witness ==
    /\ RightDone /\ frames >= 1
    /\ l_feedback_buffer # r_feedback_buffer
    /\ l_delay_line[1].buffer # r_delay_line[1].buffer
    /\ l_lfo # r_lfo

AllDelayLines == {l_delay_line[k] : k \in 1..3} \cup {r_delay_line[k] : k \in 1..3}

\* C6: after initialize(sr) the engine converts milliseconds to samples at
\* the host's rate sr, and the delay buffers hold one second at that rate.
C6_HostRateUsed ==
    initialized =>
        /\ sample_rate = host_rate
        /\ \A dl \in AllDelayLines : Capacity(dl) = sample_rate
        /\ LeftDone => delay_samples = DelaySamples(params.delay_ms, host_rate)

\* C7: no state after initialize() has an engine sample rate of 0 or an
\* empty delay or feedback buffer.
C7_ZeroRateRejected ==
    initialized =>
        /\ sample_rate > 0
        /\ \A dl \in AllDelayLines : Capacity(dl) > 0
        /\ Len(l_feedback_buffer) > 0 /\ Len(r_feedback_buffer) > 0

\* C8: in every delay line of capacity > 0 the write cursor and the index
\* last read lie in 0 .. capacity - 1.
C8_CursorInRange ==
    \A dl \in AllDelayLines :
        Capacity(dl) > 0 =>
            /\ 0 <= dl.write_index /\ dl.write_index < Capacity(dl)
            /\ 0 <= dl.read_index /\ dl.read_index < Capacity(dl)

\* C8 witness: a read that wrapped below index 0 to the end of the buffer
C8_Witness ==
    /\ LeftDone
    /\ \E k \in 1..3 :
          /\ l_delay_line[k].write_index > 0
          /\ l_delay_line[k].read_index > l_delay_line[k].write_index

AllZero(fb) == \A i \in 1..Len(fb) : fb[i] = Zero

\* C9: after initialize(sr) both feedback buffers hold sr entries, all 0
\* before the first sample, and the index delay_samples a sample reads is
\* inside the buffer.
C9_FeedbackReadInRange ==
    initialized =>
        /\ Len(l_feedback_buffer) = host_rate
        /\ Len(r_feedback_buffer) = host_rate
        /\ (Len(l_in) = 0 /\ ~panicked) => AllZero(l_feedback_buffer)
        /\ (Len(r_in) = 0 /\ ~panicked) => AllZero(r_feedback_buffer)
        /\ (Len(l_in) > 0 \/ panicked) =>
               FeedbackHas(l_feedback_buffer, delay_samples)

Lookback(outs, d) ==
    IF Len(outs) - d - 1 >= 1 THEN outs[Len(outs) - d - 1] ELSE Zero

====
